---- MODULE Spec2Model ----
(***************************************************************************)
(* Model of the serializer write path of rethinkdb                         *)
(* (src/src/serializer/serializer.cc): the batched write pipeline          *)
(* do_writes / perform_write with its completion synchronizers             *)
(* (write_cond_t), and the fan-in aggregator of serializer_t::block_writes.*)
(* A last part models write_row of the table_config artificial table      *)
(* (src/src/clustering/administration/tables/table_config.cc).             *)
(*                                                                         *)
(* Pointers are natural numbers, NULL is 0.  A boost::optional field is a  *)
(* sequence of length at most one: << >> is "not set", <<v>> is "set to v".*)
(* A counted_t block token is a natural number, 0 being the empty          *)
(* (default constructed) counted_t.                                        *)
(***************************************************************************)
EXTENDS Integers, Sequences, FiniteSets, TLC

----------------------------------------------------------------------------
(* Bounds of the model *)

MaxWrites == 2
NumBlocks == 2
MaxRecency == 2
NumBufs == 2
MaxInfos == 3

(* Program constants *)

NULL == 0
invalid == -1
EmptyToken == 0

BlockIds == 1..NumBlocks
Recencies == 1..MaxRecency
Bufs == 1..NumBufs
CallbackPtrs == {NULL, 1}

----------------------------------------------------------------------------
VARIABLES
    (* do_writes *)
    writes,             \* the batch handed to do_writes
    io_account,         \* the file_account_t * handed to do_writes
    pc,                 \* position of do_writes: "issue", "wait", "commit", "done"
    i,                  \* loop index of the running loop (1-based)
    block_write_conds,  \* std::vector<write_cond_t *>: pointers into conds
    index_write_ops,    \* std::vector<index_write_op_t>
    conds,              \* heap of write_cond_t objects, indexed by pointer
    outstanding,        \* the I/O layer: callbacks of issued, uncompleted writes
    next_token,         \* the I/O layer: number of block tokens minted so far
    events,             \* calls do_writes made to its collaborators, in order
    index,              \* the index (LBA): block_id -> [token, recency]
    (* serializer_t::block_writes *)
    bw_pc,              \* "idle", "call", "issue", "returned", "crashed"
    write_infos,        \* the vector handed to block_writes
    cb,                 \* the downstream iocallback_t * handed to block_writes
    it,                 \* iterator of the issuing loop (1-based)
    intermediate,       \* the intermediate_cb_t on the heap
    ret,                \* tokens collected for the caller
    bw_outstanding,     \* issued writes whose completion has not been delivered
    delivered,          \* the writes whose completion was delivered, in order
    callee_calls,       \* number of times cb->on_io_complete() was invoked
    bw_events,          \* the block_write calls made, in order
    (* serializer_data_ptr_t *)
    ptr_,               \* wrapper -> the buffer it owns, NULL when it owns none
    dp_pc,              \* "idle", "run", "failed" (an rassert failed)
    dp_next,            \* the allocator: number of buffers handed out so far
    dp_live,            \* the allocator: buffers handed out and not given back
    dp_hist,            \* the calls made on the wrappers, in order
    (* intermediate_cb_t::on_io_complete run by concurrent I/O contexts *)
    io_ctx,             \* write -> [pc, tmp] of the context completing it
    (* serializer_block_write *)
    sbw_pc,             \* "off", "idle" (between calls), "wait" (in cb.wait())
    sbw_frames,         \* call -> [pulsed, alive, result]: its cb and result
    sbw_writes,         \* the block_write calls made on the serializer
    sbw_pending,        \* callbacks of the writes that have not completed
    sbw_rets,           \* the returns of serializer_block_write, in order
    (* table_config_artificial_table_backend_t::write_row *)
    tc_pc,              \* "off", "run"
    tc_view,            \* table_sl_view: table id -> its metadata entry
    tc_calls,           \* number of write_row calls made
    tc_last             \* what the last write_row call was given and returned

dw_vars == <<writes, io_account, pc, i, block_write_conds, index_write_ops,
             conds, outstanding, next_token, events, index>>
bw_vars == <<bw_pc, write_infos, cb, it, intermediate, ret, bw_outstanding,
             delivered, callee_calls, bw_events>>
dp_vars == <<ptr_, dp_pc, dp_next, dp_live, dp_hist>>
sbw_vars == <<sbw_pc, sbw_frames, sbw_writes, sbw_pending, sbw_rets>>
tc_vars == <<tc_pc, tc_view, tc_calls, tc_last>>
rest_vars == <<dp_vars, io_ctx, sbw_vars, tc_vars>>
vars == <<dw_vars, bw_vars, rest_vars>>

----------------------------------------------------------------------------
(* Helpers *)

Range(s) == {s[k] : k \in DOMAIN s}

SeqsUpTo(S, n) == UNION {[1..m -> S] : m \in 0..n}

(* the events of one kind, in order *)
RECURSIVE SelectEv(_, _, _)
SelectEv(s, kind, k) ==
    IF k > Len(s) THEN << >>
    ELSE IF s[k].ev = kind THEN <<s[k]>> \o SelectEv(s, kind, k + 1)
    ELSE SelectEv(s, kind, k + 1)

EventsOf(kind) == SelectEv(events, kind, 1)

----------------------------------------------------------------------------
(* Write descriptors: serializer_write_t and its factories.  The members   *)
(* of the union that a factory does not set are never read; they are NULL  *)
(* here.                                                                   *)

UPDATE == "UPDATE"
DELETE == "DELETE"
TOUCH == "TOUCH"

make_touch(block_id, recency) ==
    [block_id |-> block_id, action_type |-> TOUCH, buf |-> NULL,
     recency |-> recency, io_callback |-> NULL, launch_callback |-> NULL]

make_update(block_id, recency, buf, io_callback, launch_callback) ==
    [block_id |-> block_id, action_type |-> UPDATE, buf |-> buf,
     recency |-> recency, io_callback |-> io_callback,
     launch_callback |-> launch_callback]

make_delete(block_id) ==
    [block_id |-> block_id, action_type |-> DELETE, buf |-> NULL,
     recency |-> NULL, io_callback |-> NULL, launch_callback |-> NULL]

Descriptors ==
    {make_update(b, r, buf, iocb, lcb) :
        b \in BlockIds, r \in Recencies, buf \in Bufs,
        iocb \in CallbackPtrs, lcb \in CallbackPtrs}
    \cup {make_delete(b) : b \in BlockIds}
    \cup {make_touch(b, r) : b \in BlockIds, r \in Recencies}

----------------------------------------------------------------------------
(* index_write_op_t: both optional fields start out "not set" *)

index_write_op_t(block_id) ==
    [block_id |-> block_id, token |-> << >>, recency |-> << >>]

(* The index applies the operations of a batch in order; a field that is   *)
(* not set leaves the entry's field as it was.                             *)
apply_op(idx, op) ==
    [idx EXCEPT ![op.block_id] =
        [token   |-> IF op.token = << >> THEN @.token ELSE op.token[1],
         recency |-> IF op.recency = << >> THEN @.recency ELSE op.recency[1]]]

RECURSIVE apply_ops(_, _, _)
apply_ops(idx, ops, k) ==
    IF k > Len(ops) THEN idx
    ELSE apply_ops(apply_op(idx, ops[k]), ops, k + 1)

index_write(idx, ops) == apply_ops(idx, ops, 1)

----------------------------------------------------------------------------
(* The physical I/O primitive serializer_t::block_write as do_writes sees  *)
(* it: mints a token, remembers the callback, returns immediately.  st is  *)
(* the part of the state perform_write works on.                           *)

block_write(st, w, buf, block_id, acct, callback) ==
    [st EXCEPT
        !.next_token = @ + 1,
        !.outstanding = @ \cup {callback},
        !.events = Append(@, [ev |-> "block_write", w |-> w, buf |-> buf,
                              block_id |-> block_id, acct |-> acct,
                              cb |-> callback, token |-> st.next_token + 1]),
        !.result = st.next_token + 1]

(* a write_cond_t that forgets the caller's callback *)
write_cond_t_no_callback(callback) ==
    [callback |-> NULL, pulsed |-> FALSE, alive |-> TRUE, forwarded |-> 0]

(* forwarded counts the calls of callback->on_io_complete() *)
write_cond_t(callback) ==
    [callback |-> callback, pulsed |-> FALSE, alive |-> TRUE, forwarded |-> 0]

(* an UPDATE that notifies the launch callback before it issues the write *)
perform_update_launch_early(write, w, acct, st) ==
    LET st1 == [st EXCEPT
                    !.heap = Append(@, write_cond_t(write.io_callback)),
                    !.conds = Append(@, Len(st.heap) + 1)]
        st2 == IF write.launch_callback # NULL
               THEN [st1 EXCEPT !.events =
                        Append(@, [ev |-> "on_write_launched", w |-> w,
                                   cb |-> write.launch_callback,
                                   token |-> EmptyToken])]
               ELSE st1
        st3 == block_write(st2, w, write.buf, st2.op.block_id, acct,
                           st2.conds[Len(st2.conds)])
    IN  [st3 EXCEPT !.op.token = <<st3.result>>,
                    !.op.recency = <<write.recency>>]

(* an UPDATE that reuses the write already issued for the same block *)
perform_update_dedup(write, w, acct, st) ==
    LET same == {p \in DOMAIN st.events :
                    /\ st.events[p].ev = "block_write"
                    /\ st.events[p].block_id = st.op.block_id}
    IN  IF same = {}
        THEN LET st1 == [st EXCEPT
                            !.heap = Append(@, write_cond_t(write.io_callback)),
                            !.conds = Append(@, Len(st.heap) + 1)]
                 st2 == block_write(st1, w, write.buf, st1.op.block_id, acct,
                                    st1.conds[Len(st1.conds)])
             IN  [st2 EXCEPT !.op.token = <<st2.result>>,
                             !.op.recency = <<write.recency>>]
        ELSE [st EXCEPT
                !.op.token = <<st.events[CHOOSE p \in same : TRUE].token>>,
                !.op.recency = <<write.recency>>]

perform_update(write, w, acct, st) ==
    LET st1 == [st EXCEPT
                    !.heap = Append(@, write_cond_t(write.io_callback)),
                    !.conds = Append(@, Len(st.heap) + 1)]
        st2 == block_write(st1, w, write.buf, st1.op.block_id, acct,
                           st1.conds[Len(st1.conds)])
        st3 == [st2 EXCEPT !.op.token = <<st2.result>>]
        st4 == IF write.launch_callback # NULL
               THEN [st3 EXCEPT !.events =
                        Append(@, [ev |-> "on_write_launched", w |-> w,
                                   cb |-> write.launch_callback,
                                   token |-> st3.op.token[1]])]
               ELSE st3
    IN  [st4 EXCEPT !.op.recency = <<write.recency>>]

(* a DELETE that writes the block out before dropping it *)
perform_delete_writes(write, w, acct, st) ==
    LET st1 == [st EXCEPT
                    !.heap = Append(@, write_cond_t(NULL)),
                    !.conds = Append(@, Len(st.heap) + 1)]
        st2 == block_write(st1, w, NULL, st1.op.block_id, acct,
                           st1.conds[Len(st1.conds)])
    IN  [st2 EXCEPT !.op.token = <<EmptyToken>>, !.op.recency = <<invalid>>]

perform_delete(write, w, acct, st) ==
    [st EXCEPT !.op.token = <<EmptyToken>>, !.op.recency = <<invalid>>]

(* a TOUCH that records nothing *)
perform_touch_no_recency(write, w, acct, st) == st

(* a TOUCH that resets the token as a DELETE does *)
perform_touch_resets_token(write, w, acct, st) ==
    [st EXCEPT !.op.token = <<EmptyToken>>, !.op.recency = <<write.recency>>]

perform_touch(write, w, acct, st) ==
    [st EXCEPT !.op.recency = <<write.recency>>]

perform_write(write, w, acct, st) ==
    CASE write.action_type = UPDATE -> perform_update(write, w, acct, st)
      [] write.action_type = DELETE -> perform_delete(write, w, acct, st)
      [] write.action_type = TOUCH  -> perform_touch(write, w, acct, st)

----------------------------------------------------------------------------
(* do_writes *)

(* The state do_writes is called in: every block is live in the index,     *)
(* block b under the token b minted for it by an earlier batch.            *)
index_before == [b \in BlockIds |-> [token |-> b, recency |-> 1]]

Accounts == {1}

no_intermediate == [countdown |-> 0, callee |-> NULL, alive |-> FALSE]

(* Bound of the model: the wrappers *)
NumPtrs == 2
(* Bound of the model: the calls made on the wrappers *)
MaxCalls == 4

Wrappers == 1..NumPtrs

dp_idle ==
    /\ ptr_ = [w \in Wrappers |-> NULL]
    /\ dp_pc = "idle"
    /\ dp_next = 0
    /\ dp_live = {}
    /\ dp_hist = << >>

sbw_idle ==
    /\ sbw_pc = "off"
    /\ sbw_frames = << >>
    /\ sbw_writes = << >>
    /\ sbw_pending = {}
    /\ sbw_rets = << >>

tc_idle ==
    /\ tc_pc = "off"
    /\ tc_view = << >>
    /\ tc_calls = 0
    /\ tc_last = << >>

rest_idle == dp_idle /\ io_ctx = << >> /\ sbw_idle /\ tc_idle

bw_idle ==
    /\ bw_pc = "idle"
    /\ write_infos = << >>
    /\ cb = NULL
    /\ it = 1
    /\ intermediate = no_intermediate
    /\ ret = << >>
    /\ bw_outstanding = {}
    /\ delivered = << >>
    /\ callee_calls = 0
    /\ bw_events = << >>

Init ==
    /\ writes \in SeqsUpTo(Descriptors, MaxWrites)
    /\ io_account \in Accounts
    /\ pc = "issue"
    /\ i = 1
    /\ block_write_conds = << >>
    /\ index_write_ops = << >>
    /\ conds = << >>
    /\ outstanding = {}
    /\ next_token = NumBlocks
    /\ events = << >>
    /\ index = index_before
    /\ bw_idle
    /\ rest_idle

(* a loop body that puts the new operation in front *)
issue_one_push_front(write, w, acct, st) ==
    LET st0 == [st EXCEPT !.op = index_write_op_t(write.block_id)]
        st1 == perform_write(write, w, acct, st0)
    IN  [st1 EXCEPT !.ops = <<st1.op>> \o @]

(* Step 1, the body of the loop: op(write->block_id); perform_write;       *)
(* index_write_ops.push_back(op)                                           *)
issue_one(write, w, acct, st) ==
    LET st0 == [st EXCEPT !.op = index_write_op_t(write.block_id)]
        st1 == perform_write(write, w, acct, st0)
    IN  [st1 EXCEPT !.ops = Append(@, st1.op)]

(* a step 1 that lets the previous write complete before it goes on *)
do_writes_issue_serial ==
    /\ pc = "issue"
    /\ i <= Len(writes)
    /\ outstanding = {}
    /\ LET st == [heap |-> conds, conds |-> block_write_conds,
                  ops |-> index_write_ops,
                  op |-> index_write_op_t(writes[i].block_id),
                  outstanding |-> outstanding, next_token |-> next_token,
                  events |-> events, result |-> EmptyToken]
       IN  \E st1 \in {issue_one(writes[i], i, io_account, st)} :
           /\ conds' = st1.heap
           /\ block_write_conds' = st1.conds
           /\ outstanding' = st1.outstanding
           /\ next_token' = st1.next_token
           /\ events' = st1.events
           /\ index_write_ops' = st1.ops
    /\ i' = i + 1
    /\ UNCHANGED <<writes, io_account, pc, index>>
    /\ UNCHANGED <<bw_vars, rest_vars>>

(* Step 1, one iteration of the loop *)
do_writes_issue ==
    /\ pc = "issue"
    /\ i <= Len(writes)
    /\ LET st == [heap |-> conds, conds |-> block_write_conds,
                  ops |-> index_write_ops,
                  op |-> index_write_op_t(writes[i].block_id),
                  outstanding |-> outstanding, next_token |-> next_token,
                  events |-> events, result |-> EmptyToken]
       IN  \E st1 \in {issue_one(writes[i], i, io_account, st)} :
           /\ conds' = st1.heap
           /\ block_write_conds' = st1.conds
           /\ outstanding' = st1.outstanding
           /\ next_token' = st1.next_token
           /\ events' = st1.events
           /\ index_write_ops' = st1.ops
    /\ i' = i + 1
    /\ UNCHANGED <<writes, io_account, pc, index>>
    /\ UNCHANGED <<bw_vars, rest_vars>>

(* a do_writes without step 2 *)
do_writes_issued_no_wait ==
    /\ pc = "issue"
    /\ i > Len(writes)
    /\ pc' = "commit"
    /\ i' = 1
    /\ UNCHANGED <<writes, io_account, block_write_conds, index_write_ops,
                   conds, outstanding, next_token, events, index>>
    /\ UNCHANGED <<bw_vars, rest_vars>>

(* End of the loop of step 1: the loop of step 2 starts *)
do_writes_issued ==
    /\ pc = "issue"
    /\ i > Len(writes)
    /\ pc' = "wait"
    /\ i' = 1
    /\ UNCHANGED <<writes, io_account, block_write_conds, index_write_ops,
                   conds, outstanding, next_token, events, index>>
    /\ UNCHANGED <<bw_vars, rest_vars>>

(* a wait() that does not block *)
wait_returns_unpulsed(c) == TRUE

(* cond_t::wait returns once the cond is pulsed *)
wait_returns(c) == c.pulsed

(* Step 2, one iteration: wait() then delete *)
do_writes_wait ==
    /\ pc = "wait"
    /\ i <= Len(block_write_conds)
    /\ wait_returns(conds[block_write_conds[i]])
    /\ conds' = [conds EXCEPT ![block_write_conds[i]].alive = FALSE]
    /\ i' = i + 1
    /\ UNCHANGED <<writes, io_account, pc, block_write_conds, index_write_ops,
                   outstanding, next_token, events, index>>
    /\ UNCHANGED <<bw_vars, rest_vars>>

(* a step 2 that returns from do_writes when there was nothing to wait for *)
do_writes_waited_early_return ==
    /\ pc = "wait"
    /\ i > Len(block_write_conds)
    /\ block_write_conds' = << >>
    /\ pc' = IF block_write_conds = << >> THEN "done" ELSE "commit"
    /\ UNCHANGED <<writes, io_account, i, index_write_ops, conds, outstanding,
                   next_token, events, index>>
    /\ UNCHANGED <<bw_vars, rest_vars>>

(* End of the loop of step 2: block_write_conds.clear() *)
do_writes_waited ==
    /\ pc = "wait"
    /\ i > Len(block_write_conds)
    /\ block_write_conds' = << >>
    /\ pc' = "commit"
    /\ UNCHANGED <<writes, io_account, i, index_write_ops, conds, outstanding,
                   next_token, events, index>>
    /\ UNCHANGED <<bw_vars, rest_vars>>

(* a commit that is skipped when the batch wrote nothing *)
do_writes_commit_nonempty ==
    /\ pc = "commit"
    /\ events' = IF index_write_ops = << >> THEN events
                 ELSE Append(events, [ev |-> "index_write",
                                      ops |-> index_write_ops,
                                      acct |-> io_account])
    /\ index' = index_write(index, index_write_ops)
    /\ pc' = "done"
    /\ UNCHANGED <<writes, io_account, i, block_write_conds, index_write_ops,
                   conds, outstanding, next_token>>
    /\ UNCHANGED <<bw_vars, rest_vars>>

(* Step 3: ser->index_write(index_write_ops, io_account), then return *)
do_writes_commit ==
    /\ pc = "commit"
    /\ events' = Append(events, [ev |-> "index_write", ops |-> index_write_ops,
                                 acct |-> io_account])
    /\ index' = index_write(index, index_write_ops)
    /\ pc' = "done"
    /\ UNCHANGED <<writes, io_account, i, block_write_conds, index_write_ops,
                   conds, outstanding, next_token>>
    /\ UNCHANGED <<bw_vars, rest_vars>>

(* the two statements of write_cond_t::on_io_complete *)
forward(c) == [c EXCEPT !.forwarded = @ + 1]
pulse(c) == [c EXCEPT !.pulsed = TRUE]

(* an on_io_complete whose pulse only wakes a waiter that is already      *)
(* waiting on the cond, and is forgotten otherwise                         *)
on_io_complete_lost_wakeup(c) ==
    /\ c \in outstanding
    /\ \/ /\ conds[c].callback # NULL
          /\ conds[c].forwarded = 0
          /\ conds' = [conds EXCEPT ![c] = forward(@)]
          /\ UNCHANGED outstanding
       \/ /\ conds[c].callback = NULL \/ conds[c].forwarded > 0
          /\ conds' = IF /\ pc = "wait"
                         /\ i <= Len(block_write_conds)
                         /\ block_write_conds[i] = c
                      THEN [conds EXCEPT ![c] = pulse(@)]
                      ELSE conds
          /\ outstanding' = outstanding \ {c}
    /\ UNCHANGED <<writes, io_account, pc, i, block_write_conds,
                   index_write_ops, next_token, events, index>>
    /\ UNCHANGED <<bw_vars, rest_vars>>

(* an on_io_complete that pulses first and forwards afterwards *)
on_io_complete_pulse_first(c) ==
    /\ c \in outstanding
    /\ \/ /\ ~conds[c].pulsed
          /\ conds' = [conds EXCEPT ![c] = pulse(@)]
          /\ outstanding' = IF conds[c].callback # NULL THEN outstanding
                            ELSE outstanding \ {c}
       \/ /\ conds[c].pulsed
          /\ conds' = [conds EXCEPT ![c] = forward(@)]
          /\ outstanding' = outstanding \ {c}
    /\ UNCHANGED <<writes, io_account, pc, i, block_write_conds,
                   index_write_ops, next_token, events, index>>
    /\ UNCHANGED <<bw_vars, rest_vars>>

(* The I/O layer delivers the completion of an issued write:               *)
(* write_cond_t::on_io_complete.  The call of the caller's callback and    *)
(* the pulse are two steps of the I/O context; a cond without callback     *)
(* is pulsed at once.  c stays in outstanding until on_io_complete is over.*)
on_io_complete(c) ==
    /\ c \in outstanding
    /\ \/ /\ conds[c].callback # NULL
          /\ conds[c].forwarded = 0
          /\ conds' = [conds EXCEPT ![c] = forward(@)]
          /\ UNCHANGED outstanding
       \/ /\ conds[c].callback = NULL \/ conds[c].forwarded > 0
          /\ conds' = [conds EXCEPT ![c] = pulse(@)]
          /\ outstanding' = outstanding \ {c}
    /\ UNCHANGED <<writes, io_account, pc, i, block_write_conds,
                   index_write_ops, next_token, events, index>>
    /\ UNCHANGED <<bw_vars, rest_vars>>

io_completes == \E c \in outstanding : on_io_complete(c)

Next ==
    \/ do_writes_issue
    \/ do_writes_issued
    \/ do_writes_wait
    \/ do_writes_waited
    \/ do_writes_commit
    \/ io_completes

Spec == Init /\ [][Next]_vars

(* do_writes runs whenever it can, and the I/O layer completes every write *)
(* it was handed.                                                          *)
do_writes_runs ==
    \/ do_writes_issue
    \/ do_writes_issued
    \/ do_writes_wait
    \/ do_writes_waited
    \/ do_writes_commit

Fairness ==
    /\ WF_vars(do_writes_runs)
    /\ \A c \in 1..MaxWrites : WF_vars(on_io_complete(c))

(* Whether do_writes gets to its end depends on the kinds of the           *)
(* descriptors and on the callbacks of the completions only: the batches   *)
(* of the fair specification are over one block, buffer and recency.       *)
LiveDescriptors ==
    {d \in Descriptors :
        /\ d.block_id = 1
        /\ d.buf \in {NULL, 1}
        /\ d.recency \in {NULL, 1}
        /\ d.launch_callback = NULL}

InitLive ==
    /\ writes \in SeqsUpTo(LiveDescriptors, MaxWrites)
    /\ io_account \in Accounts
    /\ pc = "issue"
    /\ i = 1
    /\ block_write_conds = << >>
    /\ index_write_ops = << >>
    /\ conds = << >>
    /\ outstanding = {}
    /\ next_token = NumBlocks
    /\ events = << >>
    /\ index = index_before
    /\ bw_idle
    /\ rest_idle

SpecLive == InitLive /\ [][Next]_vars /\ Fairness

----------------------------------------------------------------------------
(* serializer_t::block_writes and its fan-in aggregator intermediate_cb_t  *)

block_write_info_t(buf, block_id) == [buf |-> buf, block_id |-> block_id]

WriteInfos == {block_write_info_t(buf, b) : buf \in Bufs, b \in BlockIds}

dw_idle ==
    /\ writes = << >>
    /\ pc = "idle"
    /\ i = 1
    /\ block_write_conds = << >>
    /\ index_write_ops = << >>
    /\ conds = << >>
    /\ outstanding = {}
    /\ events = << >>
    /\ index = index_before

InitBlockWrites ==
    /\ dw_idle
    /\ io_account \in Accounts
    /\ next_token = NumBlocks
    /\ bw_pc = "call"
    /\ write_infos \in SeqsUpTo(WriteInfos, MaxInfos)
    /\ cb \in CallbackPtrs \ {NULL}
    /\ it = 1
    /\ intermediate = no_intermediate
    /\ ret = << >>
    /\ bw_outstanding = {}
    /\ delivered = << >>
    /\ callee_calls = 0
    /\ bw_events = << >>
    /\ rest_idle

(* new intermediate_cb_t; countdown = write_infos.size(); callee = cb *)
new_intermediate(infos, callee) ==
    [countdown |-> Len(infos), callee |-> callee, alive |-> TRUE]

block_writes_call ==
    /\ bw_pc = "call"
    /\ intermediate' = new_intermediate(write_infos, cb)
    /\ ret' = << >>
    /\ it' = 1
    /\ bw_pc' = "issue"
    /\ UNCHANGED <<write_infos, cb, bw_outstanding, delivered, callee_calls,
                   bw_events>>
    /\ UNCHANGED <<dw_vars, rest_vars>>

(* one iteration of the loop: ret.push_back(block_write(...)) *)
block_writes_issue ==
    /\ bw_pc = "issue"
    /\ it <= Len(write_infos)
    /\ next_token' = next_token + 1
    /\ bw_events' = Append(bw_events,
            [buf |-> write_infos[it].buf, block_id |-> write_infos[it].block_id,
             acct |-> io_account, token |-> next_token + 1])
    /\ bw_outstanding' = bw_outstanding \cup {it}
    /\ ret' = Append(ret, next_token + 1)
    /\ it' = it + 1
    /\ UNCHANGED <<bw_pc, write_infos, cb, intermediate, delivered,
                   callee_calls>>
    /\ UNCHANGED <<writes, io_account, pc, i, block_write_conds,
                   index_write_ops, conds, outstanding, events, index>>
    /\ UNCHANGED rest_vars

block_writes_return ==
    /\ bw_pc = "issue"
    /\ it > Len(write_infos)
    /\ bw_pc' = "returned"
    /\ UNCHANGED <<write_infos, cb, it, intermediate, ret, bw_outstanding,
                   delivered, callee_calls, bw_events>>
    /\ UNCHANGED <<dw_vars, rest_vars>>

(* an aggregator that forwards every completion *)
intermediate_on_io_complete_each(m) ==
    IF ~(m.countdown > 0)
    THEN [m |-> m, crashed |-> TRUE, called |-> FALSE]
    ELSE [m |-> [m EXCEPT !.countdown = @ - 1], crashed |-> FALSE,
          called |-> TRUE]

(* intermediate_cb_t::on_io_complete: the result is the aggregator after   *)
(* the call, whether the guarantee failed and whether the callee was called *)
intermediate_on_io_complete(m) ==
    IF ~(m.countdown > 0)
    THEN [m |-> m, crashed |-> TRUE, called |-> FALSE]
    ELSE LET m1 == [m EXCEPT !.countdown = @ - 1]
         IN  IF m1.countdown = 0
             THEN [m |-> [m1 EXCEPT !.alive = FALSE], crashed |-> FALSE,
                   called |-> TRUE]
             ELSE [m |-> m1, crashed |-> FALSE, called |-> FALSE]

(* The I/O layer delivers the completion of the k-th write issued *)
bw_io_complete(k) ==
    /\ bw_pc \in {"issue", "returned"}
    /\ k \in bw_outstanding
    /\ bw_outstanding' = bw_outstanding \ {k}
    /\ delivered' = Append(delivered, k)
    /\ LET r == intermediate_on_io_complete(intermediate)
       IN  /\ intermediate' = r.m
           /\ callee_calls' = IF r.called THEN callee_calls + 1
                              ELSE callee_calls
           /\ bw_pc' = IF r.crashed THEN "crashed" ELSE bw_pc
    /\ UNCHANGED <<write_infos, cb, it, ret, bw_events>>
    /\ UNCHANGED <<dw_vars, rest_vars>>

bw_io_completes == \E k \in bw_outstanding : bw_io_complete(k)

NextBlockWrites ==
    \/ block_writes_call
    \/ block_writes_issue
    \/ block_writes_return
    \/ bw_io_completes

SpecBlockWrites == InitBlockWrites /\ [][NextBlockWrites]_vars

----------------------------------------------------------------------------
(* block_writes when every write is completed by an I/O context of its     *)
(* own and the contexts run intermediate_cb_t::on_io_complete at the same  *)
(* time.  countdown is a plain size_t: --countdown is a load and a store,  *)
(* and the contexts interleave between the two and before the test.        *)

InitBlockWritesRace ==
    /\ dw_idle
    /\ io_account \in Accounts
    /\ next_token = NumBlocks
    /\ bw_pc = "call"
    /\ write_infos \in SeqsUpTo(WriteInfos, MaxInfos)
    /\ cb \in CallbackPtrs \ {NULL}
    /\ it = 1
    /\ intermediate = no_intermediate
    /\ ret = << >>
    /\ bw_outstanding = {}
    /\ delivered = << >>
    /\ callee_calls = 0
    /\ bw_events = << >>
    /\ dp_idle
    /\ io_ctx = [k \in DOMAIN write_infos |-> [pc |-> "idle", tmp |-> 0]]
    /\ sbw_idle
    /\ tc_idle

(* guarantee(countdown > 0); then --countdown reads countdown *)
race_load(k) ==
    /\ bw_pc \in {"issue", "returned"}
    /\ k \in bw_outstanding
    /\ io_ctx[k].pc = "idle"
    /\ IF intermediate.countdown > 0
       THEN /\ io_ctx' = [io_ctx EXCEPT ![k] = [pc |-> "loaded",
                                               tmp |-> intermediate.countdown]]
            /\ UNCHANGED bw_pc
       ELSE /\ bw_pc' = "crashed"
            /\ UNCHANGED io_ctx
    /\ UNCHANGED <<write_infos, cb, it, intermediate, ret, bw_outstanding,
                   delivered, callee_calls, bw_events>>
    /\ UNCHANGED <<dw_vars, dp_vars, sbw_vars, tc_vars>>

(* --countdown writes countdown back *)
race_store(k) ==
    /\ bw_pc \in {"issue", "returned"}
    /\ io_ctx[k].pc = "loaded"
    /\ intermediate' = [intermediate EXCEPT !.countdown = io_ctx[k].tmp - 1]
    /\ io_ctx' = [io_ctx EXCEPT ![k].pc = "stored"]
    /\ UNCHANGED <<bw_pc, write_infos, cb, it, ret, bw_outstanding,
                   delivered, callee_calls, bw_events>>
    /\ UNCHANGED <<dw_vars, dp_vars, sbw_vars, tc_vars>>

(* if (countdown == 0) { delete this; local_callee->on_io_complete(); } *)
race_test(k) ==
    /\ bw_pc \in {"issue", "returned"}
    /\ io_ctx[k].pc = "stored"
    /\ IF intermediate.countdown = 0
       THEN /\ intermediate' = [intermediate EXCEPT !.alive = FALSE]
            /\ callee_calls' = callee_calls + 1
       ELSE UNCHANGED <<intermediate, callee_calls>>
    /\ io_ctx' = [io_ctx EXCEPT ![k].pc = "done"]
    /\ bw_outstanding' = bw_outstanding \ {k}
    /\ delivered' = Append(delivered, k)
    /\ UNCHANGED <<bw_pc, write_infos, cb, it, ret, bw_events>>
    /\ UNCHANGED <<dw_vars, dp_vars, sbw_vars, tc_vars>>

race_loads == \E k \in DOMAIN write_infos : race_load(k)
race_stores == \E k \in DOMAIN write_infos : race_store(k)
race_tests == \E k \in DOMAIN write_infos : race_test(k)

(* block_writes itself, with io_ctx left alone *)
NextBlockWritesRace ==
    \/ block_writes_call
    \/ block_writes_issue
    \/ block_writes_return
    \/ race_loads
    \/ race_stores
    \/ race_tests

SpecBlockWritesRace == InitBlockWritesRace /\ [][NextBlockWritesRace]_vars

----------------------------------------------------------------------------
(* table_config_artificial_table_backend_t::write_row                      *)
(* (src/src/clustering/administration/tables/table_config.cc).             *)
(* Names, primary keys, uuids and database ids are natural numbers.  A     *)
(* datum array is a sequence.  The row given to write_row is << >> when    *)
(* new_value has no value and <<d>> when it has, d being the object        *)
(* [name, db, primary_key, shards]; its uuid field is the primary key of   *)
(* the row (guarantee(new_table_id == table_id)).                          *)

NumTables == 2
NumNames == 2
NumKeys == 2
NumDbs == 1
NumServers == 2
MaxArray == 2
MaxShards == 2
MaxRowCalls == 3
MaxConfigCalls == 2

TableIds == 1..NumTables
TableNames == 1..NumNames
PrimaryKeys == 1..NumKeys
Databases == 1..NumDbs
(* the last database name is the name of no database *)
DbNames == 1..(NumDbs + 1)
Servers == 1..NumServers

(* deletable_t<namespace_semilattice_metadata_t>, and no entry at all *)
absent_entry ==
    [state |-> "absent", name |-> 0, database |-> 0, primary_key |-> 0,
     config |-> << >>, shard_scheme |-> 0]

deleted_entry ==
    [state |-> "deleted", name |-> 0, database |-> 0, primary_key |-> 0,
     config |-> << >>, shard_scheme |-> 0]

(* the name of a database, and the database of a name *)
get_db_name(db_id) == db_id

get_db_id(db_name) ==
    IF db_name \in Databases
    THEN [ok |-> TRUE, db_id |-> db_name]
    ELSE [ok |-> FALSE, db_id |-> 0]

has_duplicates(arr) ==
    \E a, b \in DOMAIN arr : a # b /\ arr[a] = arr[b]

(* datum array -> std::set; an element that appears twice is an error      *)
(* unless allow_duplicates                                                 *)
convert_set_from_datum(allow_duplicates, arr) ==
    IF ~allow_duplicates /\ has_duplicates(arr)
    THEN [ok |-> FALSE, value |-> {}]
    ELSE [ok |-> TRUE, value |-> Range(arr)]

no_shard == [replica_names |-> {}, director_names |-> << >>]

(* a shard parser that does not look at the directors *)
convert_table_config_shard_from_datum_any_director(datum) ==
    LET replicas == convert_set_from_datum(FALSE, datum.replicas)
    IN  IF ~replicas.ok
        THEN [ok |-> FALSE, error |-> "replicas", shard |-> no_shard]
        ELSE IF replicas.value = {}
        THEN [ok |-> FALSE, error |-> "no replica", shard |-> no_shard]
        ELSE IF datum.directors = << >>
        THEN [ok |-> FALSE, error |-> "no director", shard |-> no_shard]
        ELSE [ok |-> TRUE, error |-> "",
              shard |-> [replica_names |-> replicas.value,
                         director_names |-> datum.directors]]

convert_table_config_shard_from_datum(datum) ==
    LET replicas == convert_set_from_datum(FALSE, datum.replicas)
        directors == datum.directors
        (* the directors at which the loop of lines 84-96 returns false *)
        bad == {n \in DOMAIN directors :
                    \/ directors[n] \notin replicas.value
                    \/ \E m \in 1..(n - 1) : directors[m] = directors[n]}
        first == CHOOSE n \in bad : \A m \in bad : n <= m
    IN  IF ~replicas.ok
        THEN [ok |-> FALSE, error |-> "replicas", shard |-> no_shard]
        ELSE IF replicas.value = {}
        THEN [ok |-> FALSE, error |-> "no replica", shard |-> no_shard]
        ELSE IF directors = << >>
        THEN [ok |-> FALSE, error |-> "no director", shard |-> no_shard]
        ELSE IF bad # {}
        THEN [ok |-> FALSE,
              error |-> IF directors[first] \notin replicas.value
                        THEN "director not replica"
                        ELSE "director twice",
              shard |-> no_shard]
        ELSE [ok |-> TRUE, error |-> "",
              shard |-> [replica_names |-> replicas.value,
                         director_names |-> directors]]

(* datum array -> std::vector of shards: the first shard that does not     *)
(* parse fails the whole conversion                                        *)
convert_vector_from_datum(arr) ==
    LET parsed == [n \in DOMAIN arr |->
                        convert_table_config_shard_from_datum(arr[n])]
        failed == {n \in DOMAIN arr : ~parsed[n].ok}
        first == CHOOSE n \in failed : \A m \in failed : n <= m
    IN  IF failed # {}
        THEN [ok |-> FALSE, error |-> parsed[first].error, value |-> << >>]
        ELSE [ok |-> TRUE, error |-> "",
              value |-> [n \in DOMAIN arr |-> parsed[n].shard]]

convert_table_config_and_name_from_datum(datum) ==
    LET shards == convert_vector_from_datum(datum.shards)
        fail(e) == [ok |-> FALSE, error |-> e, table_name |-> 0,
                    db_name |-> 0, primary_key |-> 0, config |-> << >>]
    IN  IF ~shards.ok
        THEN fail(shards.error)
        ELSE IF shards.value = << >>
        THEN fail("no shard")
        ELSE [ok |-> TRUE, error |-> "", table_name |-> datum.name,
              db_name |-> datum.db, primary_key |-> datum.primary_key,
              config |-> shards.value]

(* TRUE when a table with this uuid exists and is not deleted *)
search_metadata_by_uuid(namespaces, table_id) ==
    namespaces[table_id].state = "live"

(* ns_searcher.find_uniq(pred, &status): status != METADATA_ERR_NONE, that *)
(* is, some live table of the database has the name                        *)
find_uniq(namespaces, table_name, db_id) ==
    \E t \in DOMAIN namespaces :
        /\ namespaces[t].state = "live"
        /\ namespaces[t].name = table_name
        /\ namespaces[t].database = db_id

(* table_sl_view->join(md): a deletion wins, otherwise the entry of md     *)
join(view, md) ==
    [t \in DOMAIN view |->
        IF view[t].state = "deleted" \/ md[t].state = "deleted"
        THEN deleted_entry
        ELSE IF md[t].state = "live" THEN md[t] ELSE view[t]]

(* on a name collision md is updated and joined all the same *)
write_row_collision_joins(res, new_md, existed_before) ==
    [res EXCEPT !.joined = TRUE, !.md = new_md]

(* on a name collision: return false, md is dropped *)
write_row_collision(res, new_md, existed_before) == res

(* write_row on the metadata `view`; split_ok is the outcome of            *)
(* calculate_split_points_intelligently.  The result says whether the      *)
(* call returned true, and whether it reached table_sl_view->join(md)      *)
(* with which md.                                                          *)
write_row(view, table_id, pkey_was_autogenerated, new_value, split_ok) ==
    LET md == view
        existed_before == search_metadata_by_uuid(md, table_id)
        fail(e) == [ok |-> FALSE, error |-> e, joined |-> FALSE, md |-> md,
                    existed_before |-> existed_before]
    IN  IF new_value = << >>
        THEN [ok |-> TRUE, error |-> "", joined |-> TRUE,
              md |-> IF existed_before
                     THEN [md EXCEPT ![table_id] = deleted_entry]
                     ELSE md,
              existed_before |-> existed_before]
        ELSE
        LET p == convert_table_config_and_name_from_datum(new_value[1])
            db == IF existed_before
                  THEN [ok |-> TRUE, db_id |-> md[table_id].database]
                  ELSE get_db_id(p.db_name)
            shard_scheme == Len(p.config)
            table_md == [state |-> "live", name |-> p.table_name,
                         database |-> db.db_id,
                         primary_key |-> p.primary_key,
                         config |-> p.config, shard_scheme |-> shard_scheme]
            new_md == IF existed_before
                      THEN [md EXCEPT ![table_id].name = p.table_name,
                                      ![table_id].config = p.config,
                                      ![table_id].shard_scheme = shard_scheme]
                      ELSE [md EXCEPT ![table_id] = table_md]
        IN  IF ~p.ok
            THEN fail("wrong format")
            ELSE IF ~existed_before /\ ~pkey_was_autogenerated
            THEN fail("not an auto-generated key")
            ELSE IF existed_before /\ p.db_name # get_db_name(db.db_id)
            THEN fail("database changed")
            ELSE IF ~existed_before /\ ~db.ok
            THEN fail("unknown database")
            ELSE IF existed_before
                    /\ p.primary_key # md[table_id].primary_key
            THEN fail("primary key changed")
            ELSE IF existed_before /\ ~split_ok
            THEN fail("split points")
            ELSE IF ~existed_before /\ Len(p.config) # 1
            THEN fail("not one shard")
            ELSE IF /\ ~existed_before \/ p.table_name # md[table_id].name
                    /\ find_uniq(md, p.table_name, db.db_id)
            THEN write_row_collision(fail("name collision"), new_md,
                                     existed_before)
            ELSE [ok |-> TRUE, error |-> "", joined |-> TRUE, md |-> new_md,
                  existed_before |-> existed_before]

(* the conditions on the shards of a row, stated on the datum itself *)
shard_datum_ok(d) ==
    /\ d.replicas # << >>
    /\ d.directors # << >>
    /\ \A n \in DOMAIN d.directors :
          \E r \in DOMAIN d.replicas : d.replicas[r] = d.directors[n]
    /\ \A n, m \in DOMAIN d.directors :
          d.directors[n] = d.directors[m] => n = m

shards_datum_ok(shards) ==
    /\ Len(shards) >= 1
    /\ \A n \in DOMAIN shards : shard_datum_ok(shards[n])

(* the shard objects over servers S with arrays of at most n elements *)
ShardDatums(S, n) ==
    [replicas : SeqsUpTo(S, n), directors : SeqsUpTo(S, n)]

(* rows that vary in name, database and primary key, over one server *)
RowDatums ==
    [name : TableNames, db : DbNames, primary_key : PrimaryKeys,
     shards : SeqsUpTo(ShardDatums({1}, 1), MaxShards)]

(* rows that vary in their shards *)
ConfigDatums ==
    [name : {1}, db : {1}, primary_key : {1},
     shards : SeqsUpTo(ShardDatums(Servers, MaxArray), MaxShards)]

InitWriteRow ==
    /\ dw_idle
    /\ io_account \in Accounts
    /\ next_token = NumBlocks
    /\ bw_idle
    /\ dp_idle
    /\ io_ctx = << >>
    /\ sbw_idle
    /\ tc_pc = "run"
    /\ tc_view = [t \in TableIds |-> absent_entry]
    /\ tc_calls = 0
    /\ tc_last = << >>

(* one write_row call with a row of Values, or with no value *)
write_row_call(Values, limit) ==
    /\ tc_pc = "run"
    /\ tc_calls < limit
    /\ \E table_id \in TableIds,
          new_value \in {<<d>> : d \in Values} \cup {<< >>} :
          (* guarantee(!pkey_was_autogenerated) of lines 266, 276, 377:   *)
          (* an auto-generated uuid is the uuid of no table, deleted or   *)
          (* not; the split points are computed for a live table only     *)
          \E pkey_was_autogenerated \in
                IF tc_view[table_id].state = "absent" THEN BOOLEAN
                                                      ELSE {FALSE},
             split_ok \in
                IF tc_view[table_id].state = "live" THEN BOOLEAN ELSE {TRUE} :
             \E res \in {write_row(tc_view, table_id, pkey_was_autogenerated,
                                   new_value, split_ok)} :
                /\ tc_view' = IF res.joined THEN join(tc_view, res.md)
                                            ELSE tc_view
                /\ tc_last' = <<[table_id |-> table_id,
                                 has_value |-> new_value # << >>,
                                 ok |-> res.ok, error |-> res.error,
                                 existed_before |-> res.existed_before,
                                 shards_ok |-> IF new_value = << >> THEN FALSE
                                     ELSE shards_datum_ok(new_value[1].shards),
                                 before |-> tc_view]>>
    /\ tc_calls' = tc_calls + 1
    /\ UNCHANGED tc_pc
    /\ UNCHANGED <<dw_vars, bw_vars, dp_vars, io_ctx, sbw_vars>>

write_rows == write_row_call(RowDatums, MaxRowCalls)

SpecWriteRow == InitWriteRow /\ [][write_rows]_vars

write_configs == write_row_call(ConfigDatums, MaxConfigCalls)

SpecWriteConfig == InitWriteRow /\ [][write_configs]_vars

----------------------------------------------------------------------------
(* serializer_block_write, called up to MaxBlockWriteCalls times in a row. *)
(* Each call has its own cb on its stack frame; the frame is gone          *)
(* (alive = FALSE) when the call returns.                                  *)

MaxBlockWriteCalls == 3

InitBlockWrite ==
    /\ dw_idle
    /\ io_account \in Accounts
    /\ next_token = NumBlocks
    /\ bw_idle
    /\ dp_idle
    /\ io_ctx = << >>
    /\ sbw_pc = "idle"
    /\ sbw_frames = << >>
    /\ sbw_writes = << >>
    /\ sbw_pending = {}
    /\ sbw_rets = << >>
    /\ tc_idle

(* cb is constructed and result = ser->block_write(buf, block_id,          *)
(* io_account, &cb); the call then sits in cb.wait()                       *)
serializer_block_write_call ==
    /\ sbw_pc = "idle"
    /\ Len(sbw_frames) < MaxBlockWriteCalls
    /\ \E buf \in Bufs, block_id \in BlockIds :
          LET c == Len(sbw_frames) + 1
              st == block_write([next_token |-> next_token + Len(sbw_writes),
                                 outstanding |-> sbw_pending,
                                 events |-> sbw_writes,
                                 result |-> EmptyToken],
                                c, buf, block_id, io_account, c)
          IN  /\ sbw_frames' = Append(sbw_frames,
                    [pulsed |-> FALSE, alive |-> TRUE, result |-> st.result])
              /\ sbw_writes' = st.events
              /\ sbw_pending' = st.outstanding
    /\ sbw_pc' = "wait"
    /\ UNCHANGED sbw_rets
    /\ UNCHANGED <<dw_vars, bw_vars, dp_vars, io_ctx, tc_vars>>

(* the I/O layer completes a write: cb.on_io_complete() { pulse(); } *)
sbw_on_io_complete(c) ==
    /\ c \in sbw_pending
    /\ sbw_frames' = [sbw_frames EXCEPT ![c] = pulse(@)]
    /\ sbw_pending' = sbw_pending \ {c}
    /\ UNCHANGED <<sbw_pc, sbw_writes, sbw_rets>>
    /\ UNCHANGED <<dw_vars, bw_vars, dp_vars, io_ctx, tc_vars>>

sbw_io_completes == \E c \in DOMAIN sbw_frames : sbw_on_io_complete(c)

(* a return that does not sit in cb.wait() *)
serializer_block_write_return_no_wait ==
    /\ sbw_pc = "wait"
    /\ LET c == Len(sbw_frames)
       IN  /\ sbw_rets' = Append(sbw_rets,
                    [call |-> c, token |-> sbw_frames[c].result,
                     fired |-> c \notin sbw_pending])
           /\ sbw_frames' = [sbw_frames EXCEPT ![c].alive = FALSE]
    /\ sbw_pc' = "idle"
    /\ UNCHANGED <<sbw_writes, sbw_pending>>
    /\ UNCHANGED <<dw_vars, bw_vars, dp_vars, io_ctx, tc_vars>>

(* cb.wait() returns; return result; cb goes out of scope *)
serializer_block_write_return ==
    /\ sbw_pc = "wait"
    /\ LET c == Len(sbw_frames)
       IN  /\ wait_returns(sbw_frames[c])
           /\ sbw_rets' = Append(sbw_rets,
                    [call |-> c, token |-> sbw_frames[c].result,
                     fired |-> c \notin sbw_pending])
           /\ sbw_frames' = [sbw_frames EXCEPT ![c].alive = FALSE]
    /\ sbw_pc' = "idle"
    /\ UNCHANGED <<sbw_writes, sbw_pending>>
    /\ UNCHANGED <<dw_vars, bw_vars, dp_vars, io_ctx, tc_vars>>

NextBlockWrite ==
    \/ serializer_block_write_call
    \/ sbw_io_completes
    \/ serializer_block_write_return

SpecBlockWrite == InitBlockWrite /\ [][NextBlockWrite]_vars

----------------------------------------------------------------------------
(* serializer_data_ptr_t.  st is [ptr, next, live, failed]: the ptr_ of    *)
(* every wrapper, the allocator, and whether an rassert has failed.        *)

has(p) == p # NULL

(* ser->malloc(): a buffer nobody owns yet *)
ser_malloc(st) == [st EXCEPT !.next = @ + 1, !.live = @ \cup {st.next + 1}]

(* ser->clone(buf): a new buffer with the contents of buf *)
ser_clone(st, buf) == [st EXCEPT !.next = @ + 1, !.live = @ \cup {st.next + 1}]

(* ptr_.reset(): the buffer goes back to the allocator *)
reset(st, w) ==
    [st EXCEPT !.live = @ \ {st.ptr[w]}, !.ptr[w] = NULL]

free(st, w) ==
    IF ~has(st.ptr[w]) THEN [st EXCEPT !.failed = TRUE]
    ELSE reset(st, w)

(* an init_malloc that does not check that the wrapper is empty *)
init_malloc_unchecked(st, w) ==
    [ser_malloc(st) EXCEPT !.ptr[w] = st.next + 1]

init_malloc(st, w) ==
    IF has(st.ptr[w]) THEN [st EXCEPT !.failed = TRUE]
    ELSE [ser_malloc(st) EXCEPT !.ptr[w] = st.next + 1]

init_clone(st, w, other) ==
    IF ~has(st.ptr[other]) THEN [st EXCEPT !.failed = TRUE]
    ELSE IF has(st.ptr[w]) THEN [st EXCEPT !.failed = TRUE]
    ELSE [ser_clone(st, st.ptr[other]) EXCEPT !.ptr[w] = st.next + 1]

InitDataPtr ==
    /\ dw_idle
    /\ io_account \in Accounts
    /\ next_token = NumBlocks
    /\ bw_idle
    /\ ptr_ = [w \in Wrappers |-> NULL]
    /\ dp_pc = "run"
    /\ dp_next = 0
    /\ dp_live = {}
    /\ dp_hist = << >>
    /\ io_ctx = << >>
    /\ sbw_idle
    /\ tc_idle

dp_state == [ptr |-> ptr_, next |-> dp_next, live |-> dp_live, failed |-> FALSE]

(* one call on a wrapper: its outcome st1 becomes the state, and the call  *)
(* is recorded with what the wrappers owned when it was made               *)
dp_call(op, w, other, st1) ==
    /\ dp_pc = "run"
    /\ Len(dp_hist) < MaxCalls
    /\ ptr_' = st1.ptr
    /\ dp_next' = st1.next
    /\ dp_live' = st1.live
    /\ dp_pc' = IF st1.failed THEN "failed" ELSE "run"
    /\ dp_hist' = Append(dp_hist,
            [op |-> op, w |-> w, other |-> other, had |-> has(ptr_[w]),
             other_had |-> has(ptr_[other]), buf_before |-> ptr_[w],
             buf_after |-> st1.ptr[w], failed |-> st1.failed])
    /\ UNCHANGED <<dw_vars, bw_vars>>
    /\ UNCHANGED <<io_ctx, sbw_vars, tc_vars>>

call_free == \E w \in Wrappers : dp_call("free", w, w, free(dp_state, w))

call_init_malloc ==
    \E w \in Wrappers : dp_call("init_malloc", w, w, init_malloc(dp_state, w))

call_init_clone ==
    \E w \in Wrappers : \E other \in Wrappers :
        dp_call("init_clone", w, other, init_clone(dp_state, w, other))

NextDataPtr ==
    \/ call_free
    \/ call_init_malloc
    \/ call_init_clone

SpecDataPtr == InitDataPtr /\ [][NextDataPtr]_vars

----------------------------------------------------------------------------
(* What the collaborators of do_writes have seen *)

Committed == EventsOf("index_write")
BlockWriteCalls == EventsOf("block_write")
Launches == EventsOf("on_write_launched")

(* the descriptors of the kinds K among the first n, as a set of positions *)
Positions(K, n) ==
    {k \in 1..n : k <= Len(writes) /\ writes[k].action_type \in K}

(* the descriptors step 1 has processed so far *)
Processed == Len(index_write_ops)

(* the completion of the write that minted token t has fired *)
Completed(t) ==
    \E e \in Range(BlockWriteCalls) :
        /\ e.token = t
        /\ e.cb \notin outstanding
        /\ conds[e.cb].pulsed

----------------------------------------------------------------------------
(* C1: do_writes does not leave its wait phase, and does not invoke        *)
(* index_write, before the completion of every physical write it issued    *)
(* has fired; every non-empty token of a committed index operation is the  *)
(* token of a completed write.                                             *)
C1_DurabilityBarrier ==
    /\ pc \in {"commit", "done"} =>
          /\ outstanding = {}
          /\ \A e \in Range(BlockWriteCalls) : conds[e.cb].pulsed
    /\ \A c \in Range(Committed) :
          /\ outstanding = {}
          /\ \A k \in DOMAIN c.ops :
                (c.ops[k].token # << >> /\ c.ops[k].token[1] # EmptyToken)
                    => Completed(c.ops[k].token[1])

(* the batch of two UPDATEs is committed, with the tokens of both writes *)
C1_Witness ==
    /\ pc = "done"
    /\ Len(Committed) = 1
    /\ Len(BlockWriteCalls) = 2
    /\ \A k \in 1..2 : Committed[1].ops[k].token[1] = BlockWriteCalls[k].token

(* C2: a call of do_writes invokes index_write exactly once, with one      *)
(* operation per descriptor of the batch (UPDATE, DELETE and TOUCH alike,  *)
(* the empty batch included); before do_writes returns it is invoked at    *)
(* most once.                                                              *)
C2_OneCommitPerCall ==
    /\ Len(Committed) <= 1
    /\ pc # "done" => Len(Committed) = 0
    /\ pc = "done" =>
          /\ Len(Committed) = 1
          /\ Len(Committed[1].ops) =
                Cardinality(Positions({UPDATE}, Len(writes)))
                + Cardinality(Positions({DELETE}, Len(writes)))
                + Cardinality(Positions({TOUCH}, Len(writes)))
          /\ Len(Committed[1].ops) = Len(writes)

(* do_writes has returned from the empty batch *)
C2_Witness ==
    /\ pc = "done"
    /\ writes = << >>
    /\ Len(Committed) = 1
    /\ Committed[1].ops = << >>

(* C3: the operations handed to index_write are in the order of the        *)
(* descriptors: operation k carries the block identifier of descriptor k.  *)
C3_OpsInDescriptorOrder ==
    /\ \A k \in DOMAIN index_write_ops :
          index_write_ops[k].block_id = writes[k].block_id
    /\ \A c \in Range(Committed) :
          /\ DOMAIN c.ops = DOMAIN writes
          /\ \A k \in DOMAIN c.ops : c.ops[k].block_id = writes[k].block_id

(* a committed batch of two UPDATEs of different blocks *)
C3_Witness ==
    /\ pc = "done"
    /\ Len(writes) = 2
    /\ writes[1].block_id # writes[2].block_id
    /\ writes[1].action_type = UPDATE
    /\ writes[2].action_type = UPDATE
    /\ Len(Committed) = 1

----------------------------------------------------------------------------
(* the last descriptor of a kind in K for block b, 0 if there is none *)
LastPos(b, K) ==
    LET P == {k \in Positions(K, Len(writes)) : writes[k].block_id = b}
    IN  IF P = {} THEN 0 ELSE CHOOSE k \in P : \A j \in P : j <= k

(* the token block_write returned for descriptor k *)
TokenOfWrite(k) ==
    (CHOOSE e \in Range(BlockWriteCalls) : e.w = k).token

(* the recency descriptor k commits *)
RecencyOf(k) ==
    IF writes[k].action_type = DELETE THEN invalid ELSE writes[k].recency

(* C4: when a batch has several descriptors for one block identifier, the  *)
(* last one determines what is committed for it: after the commit the      *)
(* block has the recency of its last descriptor, and the token of its last *)
(* UPDATE or DELETE (a TOUCH does not modify the token).  In particular    *)
(* [UPDATE(b1,t1), TOUCH(b1,t2)] leaves b1 with recency t2 and the token   *)
(* of the UPDATE's write.                                                  *)
C4_LastDescriptorWins ==
    pc = "done" =>
        /\ \A b \in BlockIds :
              LET k == LastPos(b, {UPDATE, DELETE, TOUCH})
                  j == LastPos(b, {UPDATE, DELETE})
              IN  k # 0 =>
                    /\ index[b].recency = RecencyOf(k)
                    /\ index[b].token =
                          IF j = 0 THEN index_before[b].token
                          ELSE IF writes[j].action_type = UPDATE
                               THEN TokenOfWrite(j)
                               ELSE EmptyToken
        /\ ( /\ Len(writes) = 2
             /\ writes[1].action_type = UPDATE
             /\ writes[2].action_type = TOUCH
             /\ writes[1].block_id = writes[2].block_id )
             => index[writes[1].block_id] =
                    [token |-> TokenOfWrite(1), recency |-> writes[2].recency]

(* [UPDATE(b1,t1), TOUCH(b1,t2)] with t1 # t2 has been committed *)
C4_Witness ==
    /\ pc = "done"
    /\ Len(writes) = 2
    /\ writes[1].action_type = UPDATE
    /\ writes[2].action_type = TOUCH
    /\ writes[1].block_id = writes[2].block_id
    /\ writes[1].recency # writes[2].recency
    /\ index[writes[1].block_id].recency = writes[2].recency
    /\ index[writes[1].block_id].token = BlockWriteCalls[1].token

(* the positions in events of the launch notifications of descriptor k *)
LaunchesOf(k) ==
    {p \in DOMAIN events :
        events[p].ev = "on_write_launched" /\ events[p].w = k}

(* C5: for an UPDATE with a launch callback, on_write_launched is invoked  *)
(* exactly once, right after the descriptor's block_write and before the   *)
(* next descriptor is processed (hence before the wait phase), with the    *)
(* token recorded in the descriptor's index operation; a descriptor        *)
(* without a launch callback has no launch notification.                   *)
C5_LaunchCallback ==
    /\ \A k \in 1..Processed :
          IF writes[k].action_type = UPDATE /\ writes[k].launch_callback # NULL
          THEN /\ Cardinality(LaunchesOf(k)) = 1
               /\ \A p \in LaunchesOf(k) :
                    /\ p > 1
                    /\ events[p - 1].ev = "block_write"
                    /\ events[p - 1].w = k
                    /\ events[p].token = events[p - 1].token
                    /\ events[p].cb = writes[k].launch_callback
                    /\ index_write_ops[k].token = <<events[p].token>>
                    /\ \A c \in Range(Committed) :
                          c.ops[k].token = <<events[p].token>>
          ELSE LaunchesOf(k) = {}
    /\ \A k \in (Processed + 1)..Len(writes) : LaunchesOf(k) = {}
    /\ pc \in {"wait", "commit", "done"} => Processed = Len(writes)

(* the first UPDATE has been launched, the second descriptor has not been  *)
(* processed yet                                                           *)
C5_Witness ==
    /\ pc = "issue"
    /\ Len(writes) = 2
    /\ Processed = 1
    /\ writes[1].action_type = UPDATE
    /\ writes[1].launch_callback # NULL
    /\ writes[2].action_type = UPDATE
    /\ writes[2].launch_callback = NULL
    /\ Len(Launches) = 1
    /\ Launches[1].token = index_write_ops[1].token[1]

(* C6: a DELETE causes no block_write and no synchronizer, and its index   *)
(* operation is {block_id, empty token, invalid recency}; a block that     *)
(* appears only in DELETE descriptors receives no block_write.             *)
C6_DeleteIsIndexOnly ==
    /\ \A k \in Positions({DELETE}, Processed) :
          /\ index_write_ops[k] =
                [block_id |-> writes[k].block_id, token |-> <<EmptyToken>>,
                 recency |-> <<invalid>>]
          /\ \A e \in Range(BlockWriteCalls) : e.w # k
          /\ \A c \in Range(Committed) : c.ops[k] = index_write_ops[k]
    /\ Positions({UPDATE, TOUCH}, Processed) = {} =>
          /\ conds = << >>
          /\ block_write_conds = << >>
          /\ BlockWriteCalls = << >>
    /\ Len(conds) <= Cardinality(Positions({UPDATE, TOUCH}, Processed))
    /\ \A b \in BlockIds :
          (\A k \in 1..Processed :
                writes[k].block_id = b => writes[k].action_type = DELETE)
          => \A e \in Range(BlockWriteCalls) : e.block_id # b

(* a batch that deletes one block and updates another has been committed *)
C6_Witness ==
    /\ pc = "done"
    /\ Len(writes) = 2
    /\ writes[1].action_type = DELETE
    /\ writes[2].action_type = UPDATE
    /\ writes[1].block_id # writes[2].block_id
    /\ Len(BlockWriteCalls) = 1
    /\ Committed[1].ops[1].token = <<EmptyToken>>

(* C7: a TOUCH causes no block_write and no synchronizer; its index        *)
(* operation carries the new recency and the token field as the            *)
(* constructor left it (not set); committing it changes the recency of the *)
(* block and nothing else.                                                 *)
C7_TouchChangesRecencyOnly ==
    /\ \A k \in Positions({TOUCH}, Processed) :
          /\ index_write_ops[k].token =
                index_write_op_t(writes[k].block_id).token
          /\ index_write_ops[k] =
                [block_id |-> writes[k].block_id, token |-> << >>,
                 recency |-> <<writes[k].recency>>]
          /\ \A e \in Range(BlockWriteCalls) : e.w # k
          /\ \A c \in Range(Committed) : c.ops[k] = index_write_ops[k]
    /\ Positions({UPDATE, DELETE}, Processed) = {} =>
          /\ conds = << >>
          /\ block_write_conds = << >>
          /\ BlockWriteCalls = << >>
    /\ Len(conds) <= Cardinality(Positions({UPDATE, DELETE}, Processed))
    /\ pc = "done" =>
          \A b \in BlockIds :
            IF LastPos(b, {UPDATE, DELETE, TOUCH}) = 0
            THEN index[b] = index_before[b]
            ELSE LastPos(b, {UPDATE, DELETE}) = 0 =>
                    index[b] = [token |-> index_before[b].token,
                                recency |-> writes[LastPos(b, {TOUCH})].recency]

(* a batch of one TOUCH with a new recency has been committed *)
C7_Witness ==
    /\ pc = "done"
    /\ Len(writes) = 1
    /\ writes[1].action_type = TOUCH
    /\ writes[1].recency # index_before[writes[1].block_id].recency
    /\ index[writes[1].block_id].recency = writes[1].recency
    /\ index[writes[1].block_id].token = index_before[writes[1].block_id].token
    /\ conds = << >>

(* C8: do_writes issues one block_write per UPDATE descriptor, in          *)
(* descriptor order, with the descriptor's buffer and block identifier and *)
(* the io account of the call; the descriptor's index operation is         *)
(* {block_id, the token that block_write returned, the recency}; the       *)
(* number of block_write calls is the number of UPDATE descriptors, also   *)
(* when several are for the same block.                                    *)
C8_OneWritePerUpdate ==
    LET U == Positions({UPDATE}, Processed)
    IN  /\ Len(BlockWriteCalls) = Cardinality(U)
        /\ \A j \in DOMAIN BlockWriteCalls :
              LET e == BlockWriteCalls[j]
                  k == e.w
              IN  /\ k \in U
                  /\ Cardinality({u \in U : u <= k}) = j
                  /\ e.buf = writes[k].buf
                  /\ e.block_id = writes[k].block_id
                  /\ e.acct = io_account
                  /\ e.token # EmptyToken
                  /\ index_write_ops[k] =
                        [block_id |-> writes[k].block_id,
                         token |-> <<e.token>>,
                         recency |-> <<writes[k].recency>>]
                  /\ \A c \in Range(Committed) :
                        c.ops[k] = index_write_ops[k]
        /\ \A j1, j2 \in DOMAIN BlockWriteCalls :
              j1 # j2 => BlockWriteCalls[j1].token # BlockWriteCalls[j2].token
        /\ pc = "done" =>
              Len(BlockWriteCalls) = Cardinality(Positions({UPDATE}, Len(writes)))

(* two UPDATEs of the same block from different buffers have been          *)
(* committed, each with its own write                                      *)
C8_Witness ==
    /\ pc = "done"
    /\ Len(writes) = 2
    /\ writes[1].action_type = UPDATE
    /\ writes[2].action_type = UPDATE
    /\ writes[1].block_id = writes[2].block_id
    /\ writes[1].buf # writes[2].buf
    /\ Len(BlockWriteCalls) = 2
    /\ BlockWriteCalls[1].buf = writes[1].buf
    /\ BlockWriteCalls[2].buf = writes[2].buf

----------------------------------------------------------------------------
(* C9: block_writes with N >= 1 write infos invokes the downstream         *)
(* callback exactly once, when the last of the N completions is delivered  *)
(* and not before, in whatever order the completions are delivered.        *)
C9_FanInOnce ==
    Len(write_infos) >= 1 =>
        /\ bw_pc # "crashed"
        /\ callee_calls <= 1
        /\ callee_calls = 1 <=> Len(delivered) = Len(write_infos)
        /\ Len(delivered) < Len(write_infos) =>
              /\ callee_calls = 0
              /\ intermediate.alive \/ bw_pc = "call"
              /\ intermediate.countdown = Len(write_infos) - Len(delivered)
                    \/ bw_pc = "call"
        /\ callee_calls = 1 =>
              /\ bw_outstanding = {}
              /\ Range(delivered) = DOMAIN write_infos
              /\ intermediate.callee = cb

(* three writes, completed in the reverse of the order of issue *)
C9_Witness ==
    /\ Len(write_infos) = 3
    /\ delivered = <<3, 2, 1>>
    /\ callee_calls = 1
    /\ bw_pc = "returned"

(* C10: block_writes called with an empty write_infos invokes the          *)
(* downstream callback before it returns.                                  *)
C10_EmptyFanInCallsBack ==
    (bw_pc = "returned" /\ write_infos = << >>) => callee_calls = 1

----------------------------------------------------------------------------
(* wait() on synchronizer c has returned: step 2 has deleted it *)
WaitReturned(c) == ~conds[c].alive

(* C11: write_cond_t::on_io_complete invokes the caller's callback (if     *)
(* any) first and pulses afterwards: a synchronizer that is pulsed, or     *)
(* whose wait() has returned, has had its callback invoked.                *)
C11_ForwardBeforePulse ==
    \A c \in DOMAIN conds :
        /\ (conds[c].pulsed \/ WaitReturned(c)) =>
              conds[c].forwarded = IF conds[c].callback # NULL THEN 1 ELSE 0
        /\ WaitReturned(c) => conds[c].pulsed

(* the callback of the first write has been invoked, its synchronizer is   *)
(* not yet pulsed and do_writes is blocked on it                           *)
C11_Witness ==
    /\ pc = "wait"
    /\ i = 1
    /\ Len(block_write_conds) >= 1
    /\ conds[block_write_conds[1]].callback # NULL
    /\ conds[block_write_conds[1]].forwarded = 1
    /\ ~conds[block_write_conds[1]].pulsed
    /\ ~ENABLED do_writes_wait

----------------------------------------------------------------------------
(* on_io_complete has run to its end for synchronizer c *)
Fired(c) == c \notin outstanding

(* C12: a completion that fires before do_writes waits on its synchronizer *)
(* is remembered: the synchronizer stays pulsed, wait() on it returns at   *)
(* once, and do_writes, which waits on the synchronizers in issue order,   *)
(* is blocked in step 2 only on a synchronizer whose completion is still   *)
(* to come.                                                                *)
C12_CompletionNotLost ==
    /\ \A c \in DOMAIN conds : Fired(c) => conds[c].pulsed
    /\ ( /\ pc = "wait"
         /\ i <= Len(block_write_conds)
         /\ Fired(block_write_conds[i]) ) => ENABLED do_writes_wait
    /\ (pc = "wait" /\ ~ENABLED (do_writes_wait \/ do_writes_waited)) =>
          /\ i <= Len(block_write_conds)
          /\ block_write_conds[i] \in outstanding

(* the second write has completed while do_writes is blocked on the first *)
C12_Witness ==
    /\ pc = "wait"
    /\ i = 1
    /\ Len(block_write_conds) = 2
    /\ ~Fired(block_write_conds[1])
    /\ ~conds[block_write_conds[1]].pulsed
    /\ Fired(block_write_conds[2])
    /\ conds[block_write_conds[2]].pulsed

----------------------------------------------------------------------------
(* the calls on wrapper w that did not fail, in order *)
RECURSIVE CallsOn(_, _, _)
CallsOn(h, w, k) ==
    IF k > Len(h) THEN << >>
    ELSE IF h[k].w = w /\ ~h[k].failed THEN <<h[k]>> \o CallsOn(h, w, k + 1)
    ELSE CallsOn(h, w, k + 1)

Acquires == {"init_malloc", "init_clone"}

(* C13: the wrapper is either empty or owning.  init_malloc and init_clone *)
(* succeed exactly on an empty wrapper (init_clone also needs an owning    *)
(* source, which it leaves as it was) and make it owning; free succeeds    *)
(* exactly on an owning wrapper and makes it empty; every other call fails *)
(* an assertion.  So without assertion failure acquisitions and releases   *)
(* of a wrapper alternate, no buffer is released twice and none is         *)
(* overwritten without release.                                            *)
C13_TwoStateOwnership ==
    /\ \A k \in DOMAIN dp_hist :
          LET c == dp_hist[k]
          IN  /\ c.op = "free" =>
                    /\ c.failed <=> ~c.had
                    /\ ~c.failed => c.buf_after = NULL
              /\ c.op = "init_malloc" =>
                    /\ c.failed <=> c.had
                    /\ ~c.failed => has(c.buf_after)
              /\ c.op = "init_clone" =>
                    /\ c.failed <=> (c.had \/ ~c.other_had)
                    /\ ~c.failed => (has(c.buf_after) /\ c.other # c.w)
              /\ c.failed => (k = Len(dp_hist) /\ dp_pc = "failed")
    /\ \A w \in Wrappers :
          LET cs == CallsOn(dp_hist, w, 1)
          IN  /\ \A k \in DOMAIN cs :
                    IF k % 2 = 1 THEN cs[k].op \in Acquires
                    ELSE cs[k].op = "free"
              /\ has(ptr_[w]) <=> Len(cs) % 2 = 1
    /\ \A j, k \in DOMAIN dp_hist :
          ( /\ j < k
            /\ dp_hist[j].op = "free" /\ ~dp_hist[j].failed
            /\ dp_hist[k].op = "free" /\ ~dp_hist[k].failed )
          => dp_hist[j].buf_before # dp_hist[k].buf_before
    /\ dp_live = {ptr_[w] : w \in {v \in Wrappers : has(ptr_[v])}}
    /\ \A v, w \in Wrappers : (v # w /\ has(ptr_[v])) => ptr_[v] # ptr_[w]

(* wrapper 1 allocated, wrapper 2 cloned from it, both released *)
C13_Witness ==
    /\ dp_pc = "run"
    /\ Len(dp_hist) = 4
    /\ dp_hist[1].op = "init_malloc"
    /\ dp_hist[2].op = "init_clone"
    /\ dp_hist[2].other = dp_hist[1].w
    /\ dp_hist[3].op = "free"
    /\ dp_hist[4].op = "free"
    /\ \A w \in Wrappers : ~has(ptr_[w])
    /\ dp_live = {}

----------------------------------------------------------------------------
(* C14: if every write that was issued completes, do_writes commits and    *)
(* returns, in whatever order the writes complete; it never returns        *)
(* without having committed the batch.                                     *)
C14_EventuallyCommits ==
    /\ <>(pc = "done")
    /\ [](pc = "done" =>
            /\ Len(Committed) = 1
            /\ Committed[1].ops = index_write_ops
            /\ Len(index_write_ops) = Len(writes))

(* do_writes has committed and returned after both of its writes completed *)
C14_Witness ==
    /\ pc = "done"
    /\ Len(Committed) = 1
    /\ Len(conds) = 2
    /\ \A c \in DOMAIN conds : conds[c].pulsed /\ ~conds[c].alive

----------------------------------------------------------------------------
(* C15: do_writes does not wait in step 1: while descriptors are left it   *)
(* can process the next one whatever writes are outstanding, it waits on   *)
(* (and deletes) no synchronizer before the last descriptor is processed,  *)
(* and step 2 starts with every write of the batch issued.                 *)
C15_NoWaitWhileIssuing ==
    /\ (pc = "issue" /\ i <= Len(writes) /\ outstanding # {}) =>
          ENABLED do_writes_issue
    /\ pc = "issue" =>
          /\ Processed = i - 1
          /\ \A c \in DOMAIN conds : conds[c].alive
    /\ pc \in {"wait", "commit", "done"} =>
          /\ Processed = Len(writes)
          /\ Len(BlockWriteCalls) =
                Cardinality(Positions({UPDATE}, Len(writes)))
    /\ \A c \in DOMAIN conds : WaitReturned(c) => Processed = Len(writes)

(* step 2 is about to start while both writes of the batch are outstanding *)
C15_Witness ==
    /\ pc = "wait"
    /\ i = 1
    /\ Len(writes) = 2
    /\ Len(block_write_conds) = 2
    /\ outstanding = {block_write_conds[1], block_write_conds[2]}
    /\ \A c \in DOMAIN conds : ~conds[c].pulsed /\ conds[c].forwarded = 0

----------------------------------------------------------------------------
(* C16: when the N completions of a block_writes call are delivered at the *)
(* same time by different I/O contexts, no decrement of the countdown is   *)
(* lost and exactly one completion finds it zero: once all N have run, the *)
(* countdown is 0 and the downstream callback has been invoked exactly     *)
(* once.                                                                   *)
C16_AtomicCountdown ==
    /\ callee_calls <= 1
    /\ bw_pc # "crashed"
    /\ ( /\ Len(write_infos) >= 1
         /\ \A k \in DOMAIN io_ctx : io_ctx[k].pc = "done" )
         => (intermediate.countdown = 0 /\ callee_calls = 1)

----------------------------------------------------------------------------
(* C17: the aggregator that block_writes creates is destroyed exactly      *)
(* once, by the completion that brings its countdown to zero, and nothing  *)
(* refers to it afterwards: once block_writes has returned and no          *)
(* completion is to come the aggregator is gone, and when it is gone       *)
(* block_writes has issued its last write, no write that holds a pointer   *)
(* to it is outstanding and its countdown is zero.                         *)
C17_AggregatorDestroyedOnce ==
    /\ (bw_pc = "returned" /\ bw_outstanding = {}) => ~intermediate.alive
    /\ (bw_pc \in {"issue", "returned"} /\ ~intermediate.alive) =>
          /\ it > Len(write_infos)
          /\ bw_outstanding = {}
          /\ intermediate.countdown = 0
          /\ callee_calls = 1

----------------------------------------------------------------------------
(* the synchronizer created for descriptor k *)
CondOf(k) == (CHOOSE e \in Range(BlockWriteCalls) : e.w = k).cb

(* C18: the per-write callback of an UPDATE is invoked exactly once, when  *)
(* the completion of its write fires, and before index_write is invoked;   *)
(* for an UPDATE without callback nothing is forwarded.                    *)
C18_IoCallbackOncePerWrite ==
    /\ \A k \in Positions({UPDATE}, Processed) :
          LET c == conds[CondOf(k)]
          IN  /\ c.callback = writes[k].io_callback
              /\ c.forwarded <= 1
              /\ writes[k].io_callback = NULL => c.forwarded = 0
              /\ (writes[k].io_callback # NULL /\ Fired(CondOf(k))) =>
                    c.forwarded = 1
              /\ c.forwarded = 1 => writes[k].io_callback # NULL
              /\ (writes[k].io_callback # NULL /\ Committed # << >>) =>
                    c.forwarded = 1
    /\ Len(conds) = Cardinality(Positions({UPDATE}, Processed))

(* a batch of an UPDATE with a callback and an UPDATE without has been     *)
(* committed                                                               *)
C18_Witness ==
    /\ pc = "done"
    /\ Len(writes) = 2
    /\ writes[1].action_type = UPDATE
    /\ writes[1].io_callback # NULL
    /\ writes[2].action_type = UPDATE
    /\ writes[2].io_callback = NULL
    /\ conds[1].forwarded = 1
    /\ conds[2].forwarded = 0
    /\ Len(Committed) = 1

(* C19: do_writes creates one synchronizer per UPDATE, and step 2 waits on *)
(* and destroys them one by one, each once and only after its completion   *)
(* has fired, so that no write whose completion is to come refers to a     *)
(* destroyed synchronizer; when index_write is invoked none is left.       *)
C19_SynchronizerLifetime ==
    /\ Len(conds) = Cardinality(Positions({UPDATE}, Processed))
    /\ pc \in {"issue", "wait"} =>
          block_write_conds = [c \in DOMAIN conds |-> c]
    /\ pc = "issue" => \A c \in DOMAIN conds : conds[c].alive
    /\ pc = "wait" => \A c \in DOMAIN conds : conds[c].alive <=> c >= i
    /\ pc \in {"commit", "done"} => \A c \in DOMAIN conds : ~conds[c].alive
    /\ \A c \in DOMAIN conds :
          ~conds[c].alive => (Fired(c) /\ conds[c].pulsed)
    /\ \A c \in outstanding : conds[c].alive
    /\ Committed # << >> => \A c \in DOMAIN conds : ~conds[c].alive

(* the first synchronizer is destroyed, the second is alive and its write  *)
(* has not completed                                                       *)
C19_Witness ==
    /\ pc = "wait"
    /\ i = 2
    /\ Len(conds) = 2
    /\ ~conds[1].alive
    /\ conds[2].alive
    /\ 2 \in outstanding

(* C20: serializer_block_write returns the token of its write only after *)
(* the completion of that write has fired, never while the write is       *)
(* outstanding, and each call issues exactly one physical write.          *)
C20_BlockWriteIsSynchronous ==
    /\ \A n \in DOMAIN sbw_rets :
          /\ sbw_rets[n].call = n
          /\ sbw_rets[n].fired
          /\ sbw_rets[n].token = sbw_writes[n].token
          /\ sbw_rets[n].token # EmptyToken
    /\ Len(sbw_writes) = Len(sbw_frames)
    /\ \A n \in DOMAIN sbw_writes :
          sbw_writes[n].w = n /\ sbw_writes[n].cb = n
    /\ Len(sbw_rets) = Len(sbw_frames) - (IF sbw_pc = "wait" THEN 1 ELSE 0)
    /\ sbw_pc = "idle" => sbw_pending = {}
    /\ \A c \in sbw_pending : sbw_frames[c].alive

(* two calls have returned, each with the token of its own write *)
C20_Witness ==
    /\ sbw_pc = "idle"
    /\ Len(sbw_rets) = 2
    /\ Len(sbw_writes) = 2
    /\ sbw_rets[2].token = sbw_writes[2].token
    /\ sbw_rets[1].token # sbw_rets[2].token

----------------------------------------------------------------------------
(* C21: a write_row call that returns false, on whichever path, has not    *)
(* joined anything into the semilattice view: the metadata is what it was  *)
(* before the call.                                                        *)
C21_FailedWriteChangesNothing ==
    \A n \in DOMAIN tc_last :
        ~tc_last[n].ok =>
            /\ tc_view = tc_last[n].before
            /\ tc_last[n].error # ""

(* a row was refused for a name collision while two tables exist *)
C21_Witness ==
    /\ tc_last # << >>
    /\ ~tc_last[1].ok
    /\ tc_last[1].error = "name collision"
    /\ tc_last[1].existed_before
    /\ \A t \in TableIds : tc_view[t].state = "live"

(* a shard of an accepted configuration *)
shard_ok(shard) ==
    /\ shard.replica_names # {}
    /\ shard.director_names # << >>
    /\ \A n \in DOMAIN shard.director_names :
          shard.director_names[n] \in shard.replica_names
    /\ \A n, m \in DOMAIN shard.director_names :
          shard.director_names[n] = shard.director_names[m] => n = m

(* C22: after any sequence of write_row calls every table of the metadata  *)
(* has at least one shard, each shard with at least one replica and one    *)
(* director, every director a replica and none twice; a table created by   *)
(* the last call has exactly one shard; and a row whose shards break one   *)
(* of these conditions was refused with an error.                          *)
C22_AcceptedConfigsAreValid ==
    /\ \A t \in DOMAIN tc_view :
          tc_view[t].state = "live" =>
              /\ Len(tc_view[t].config) >= 1
              /\ \A n \in DOMAIN tc_view[t].config :
                    shard_ok(tc_view[t].config[n])
    /\ \A n \in DOMAIN tc_last :
          LET c == tc_last[n]
          IN  /\ (c.has_value /\ c.ok) =>
                    /\ c.shards_ok
                    /\ tc_view[c.table_id].state = "live"
                    /\ ~c.existed_before =>
                          Len(tc_view[c.table_id].config) = 1
              /\ (c.has_value /\ ~c.shards_ok) =>
                    (~c.ok /\ c.error # "")

(* a table was given two shards, one of them with two replicas that are    *)
(* both directors                                                          *)
C22_Witness ==
    /\ tc_last # << >>
    /\ tc_last[1].ok
    /\ tc_last[1].has_value
    /\ tc_last[1].existed_before
    /\ Len(tc_view[tc_last[1].table_id].config) = 2
    /\ \E n \in 1..2 :
          Len(tc_view[tc_last[1].table_id].config[n].director_names) = 2

====
